---- MODULE Spec2Model ----
(***************************************************************************)
(* A model of tasks/utils/vspipeline_utilities.py.                         *)
(*                                                                         *)
(*   Spec      concurrent update_vspipeline_json processes on one          *)
(*             (sample, task) document                                     *)
(*   SpecSeq   one writer running update_vspipeline_json repeatedly, with  *)
(*             a foreign holder of the flock on the scratch copy           *)
(*   SpecRel   find_sample_relationships on a metadata table               *)
(*   SpecTab   the table selection of _parse_template_file                 *)
(*   SpecAlg   the algorithm flags of _parse_template_file                 *)
(*   SpecMerge _merge_vspipeline_json_files                                *)
(*   SpecGen   _generate_vsbatch_content                                   *)
(*   SpecRead  the merger reading a document while appends run             *)
(*   SpecCnv   update_cnv_file                                             *)
(*   SpecDoc   the single writer on a document persisted beforehand        *)
(*   SpecDir   update_vspipeline_json for several (sample, task) pairs     *)
(*   SpecCrash the single writer, whose process may be killed              *)
(*   SpecBatch the staging and merging of generate_vsbatch_file            *)
(***************************************************************************)
EXTENDS Integers, Sequences, FiniteSets, TLC

VARIABLES
    mode,            \* the sub-command main() dispatches on (args.mode)
    \* ---- the manifest store (update_vspipeline_json) ----
    output_json,     \* the file at output_json_path
    scratch_json,    \* the file at scratch_json_path
    pc,              \* pc[p]: where process p stands in update_vspipeline_json
    args,            \* args[p]: sample_name, file_type, file_path of p's call
    data,            \* data[p]: the dict p holds in memory
    attempt,         \* attempt[p]: loop index of the running _safe_* call
    delay,           \* delay[p]: the last sleep of the running _safe_* call, in retry_delays
    flock,           \* flock[p]: the lock p holds on the scratch file
    holder,          \* the lock a foreign process holds on the scratch file
    started,         \* number of invocations begun so far
    snapshot,        \* snapshot[p]: output_json when p's call began
    replaced,        \* replaced[p]: output_json when p's copy of line 833 opened it
    held,            \* held[p]: the foreign holder has kept its lock since p's call began
    ever,            \* every entry a complete persisted document has held
    history,         \* the (sample, type, path) of each call that returned, in order
    \* ---- the group resolver (find_sample_relationships) ----
    sample_data,     \* sample name -> metadata values, as _parse_sample_file returns it
    cohort,          \* the --cohort flag
    rpc,             \* where find_sample_relationships stands
    processed_samples,
    current_group,
    to_process,
    remaining,       \* the samples the loop of line 489 has still to visit
    seeds,           \* the samples the traversals were seeded with, in order
    enqueued,        \* every sample appended to a to_process list, in order
    relationships,   \* group key -> sorted list of the group's members
    output_lines,    \* the lines _output_sample_groups wrote, one list of names each
    \* ---- the table selection of the template resolver (_parse_template_file) ----
    tpc,             \* where _parse_template_file stands
    matching_tables, \* table type -> the userIds collected for it, in order
    table_ids,       \* table type -> <<>> (None) or <<the selected userId>>
    \* ---- the algorithm flags of the template resolver (_parse_template_file) ----
    apc,             \* where the scan of lines 189-204 stands
    algorithms,      \* the algName of every algorithm of the dataTrees, in order
    alg_scanned,     \* how many of them the loop of line 193 has inspected
    import_algorithms, \* table type -> the availability flag
    \* ---- the manifest merger (_merge_vspipeline_json_files) ----
    mpc,             \* where _merge_vspipeline_json_files stands
    json_files,      \* the files at the paths of json_files, in the order supplied
    merge_index,     \* how many of them the loop of line 265 has been through
    merged_data,     \* sample name -> file type -> list of paths
    \* ---- the batch generator (_generate_vsbatch_content) ----
    gpc,             \* where _generate_vsbatch_content stands
    sample_group,    \* the sample names of the group, in the order of its line
    overwrite_project,
    vsbatch_lines,   \* the commands generated so far
    \* ---- the CNV state column (update_cnv_file) ----
    cpc,             \* where update_cnv_file stands
    cn_fields,       \* the copy-number field of each data line, in order
    lines_done,      \* how many data lines the loop of line 573 has been through
    updated_lines,   \* the data lines written so far: <<copy-number field, CNV State>>
    \* ---- the documents of several (sample, task) pairs (update_vspipeline_json) ----
    dpc,             \* where the running update_vspipeline_json call stands
    call,            \* its sample_name, task_name, file_type and file_path
    input_dir,       \* file name -> the file of that name in input_dir
    scratch_dir,     \* file name -> the file of that name in scratch_dir
    calls,           \* number of calls begun so far
    \* ---- the staging of generate_vsbatch_file ----
    sample_data_files, \* the supplied paths, in order: directory, file name, the file there
    use_scratch,     \* whether --scratch_dir was given
    staged,          \* file name -> the file of that name in the scratch directory
    copied           \* how many of existing_files the loop of line 895 has copied

storeVars == <<output_json, scratch_json, pc, args, data, attempt, delay, flock, holder,
               started, snapshot, replaced, held, ever, history>>

relVars == <<sample_data, cohort, rpc, processed_samples, current_group, to_process,
             remaining, seeds, enqueued, relationships, output_lines>>

tabVars == <<tpc, matching_tables, table_ids>>

algVars == <<apc, algorithms, alg_scanned, import_algorithms>>

mergeVars == <<mpc, json_files, merge_index, merged_data>>

genVars == <<gpc, sample_group, overwrite_project, vsbatch_lines>>

cnvVars == <<cpc, cn_fields, lines_done, updated_lines>>

dirVars == <<dpc, call, input_dir, scratch_dir, calls>>

batchVars == <<sample_data_files, use_scratch, staged, copied>>

vars == <<mode, storeVars, relVars, tabVars, algVars, mergeVars, genVars, cnvVars, dirVars,
          batchVars>>

\* what update_vspipeline_json never touches
notStore == <<mode, relVars, tabVars, algVars, mergeVars, genVars, cnvVars, dirVars, batchVars>>

----------------------------------------------------------------------------
(* Bounds of the model *)

NProc == 2          \* concurrent update_vspipeline_json processes (Spec)
MaxAppends == 3     \* invocations of the single writer (SpecSeq)

(* max_retries of _safe_read_json_file and _safe_write_json_file *)
max_retries == 30

Procs == 1 .. NProc
Writer == CHOOSE p \in Procs : \A q \in Procs : p <= q
\* the --file values the invocations are given
Paths == {"/a/x.vcf", "/a/y.vcf", "/a/z.vcf"}
valid_file_types == {"multiverse", "cnv", "bnd", "region"}
\* the file_type arguments the invocations are given; "bogus" is rejected
InputTypes == {"cnv", "bnd", "bogus"}
Samples == {"S1"}

----------------------------------------------------------------------------
(* Files and documents *)

EmptyDict == [k \in {} |-> {}]

\* a file is missing, or holds no bytes, or holds a serialised dict
MissingFile == [st |-> "missing", doc |-> EmptyDict]
EmptyFile == [st |-> "empty", doc |-> EmptyDict]
JsonFile(d) == [st |-> "json", doc |-> d]

Exists(f) == f.st # "missing"

\* _safe_read_json_file's result on an unlocked-for-us file: {} when the
\* content is blank, the parsed dict otherwise
ParsedContent(f) == IF f.st = "json" THEN f.doc ELSE EmptyDict

\* the (sample, file type, path) entries of a dict
DictEntries(d) ==
    IF "samples" \notin DOMAIN d THEN {}
    ELSE UNION { UNION { { <<s, t, d["samples"][s][t][i]>> :
                             i \in 1 .. Len(d["samples"][s][t]) } :
                         t \in DOMAIN d["samples"][s] } :
                 s \in DOMAIN d["samples"] }

Entries(f) == DictEntries(ParsedContent(f))

\* the list stored under (s, t), <<>> when there is none
StoredList(f, s, t) ==
    LET d == ParsedContent(f) IN
    IF "samples" \in DOMAIN d /\ s \in DOMAIN d["samples"]
       /\ t \in DOMAIN d["samples"][s]
    THEN d["samples"][s][t] ELSE <<>>

InList(x, l) == \E i \in 1 .. Len(l) : l[i] = x

----------------------------------------------------------------------------
(* update_vspipeline_json, lines 806-825: the in-memory modification *)

WithSamples(d) == IF "samples" \in DOMAIN d THEN d ELSE d @@ ("samples" :> EmptyDict)

WithSampleEntry(d, s) ==
    IF s \in DOMAIN d["samples"] THEN d
    ELSE [d EXCEPT !["samples"] = @ @@ (s :> [t \in valid_file_types |-> <<>>])]

\* data['samples'][sample_name][file_type] raises KeyError
RaisesKeyError(d, s, t) == t \notin DOMAIN WithSampleEntry(WithSamples(d), s)["samples"][s]

AppendAlways(l, x) == Append(l, x)

AppendIfAbsent(l, x) == IF InList(x, l) THEN l ELSE Append(l, x)

Modified(d, s, t, x) ==
    LET d2 == WithSampleEntry(WithSamples(d), s) IN
    [d2 EXCEPT !["samples"][s][t] = AppendIfAbsent(@, x)]

----------------------------------------------------------------------------
(* flock on the scratch file: LOCK_SH fails against a foreign LOCK_EX,        *)
(* LOCK_EX fails against any foreign lock                                    *)

OthersHold(p, modes) ==
    \/ holder \in modes
    \/ \E q \in Procs \ {p} : flock[q] \in modes

CanLockShared(p) == ~OthersHold(p, {"ex"})

CanLockExclusiveAlways(p) == TRUE

CanLockExclusive(p) == ~OthersHold(p, {"sh", "ex"})

Running(p) == pc[p] \notin {"idle", "done", "failed"}

\* sys.exit(1) of line 778 and line 846
ExitStatus(p) == IF pc[p] = "failed" THEN 1 ELSE 0

----------------------------------------------------------------------------
(* update_vspipeline_json, one action per step that touches the filesystem *)

storeHist == <<started, snapshot, replaced, held, ever, history>>

BackoffUncapped(k) == 2 ^ k

\* lines 668, 677, 684, 729, 746 and 753: retry_delay * (2 ** min(attempt, 5)),
\* in units of retry_delay
Backoff(k) == 2 ^ (IF k < 5 THEN k ELSE 5)

\* lines 774-790: argument validation and file names
Begin(p, s, t, x) ==
    /\ started' = started + 1
    /\ args' = [args EXCEPT ![p] = [sample_name |-> s, file_type |-> t, file_path |-> x]]
    /\ pc' = [pc EXCEPT ![p] = IF t \in valid_file_types THEN "stage" ELSE "failed"]
    /\ data' = [data EXCEPT ![p] = EmptyDict]
    /\ attempt' = [attempt EXCEPT ![p] = 0]
    /\ delay' = [delay EXCEPT ![p] = 0]
    /\ snapshot' = [snapshot EXCEPT ![p] = output_json]
    /\ held' = [held EXCEPT ![p] = (holder # "none")]
    /\ UNCHANGED <<notStore, output_json, scratch_json, flock, holder, replaced, ever, history>>

\* a process is started with its arguments
Invoke(p, s, t, x) ==
    /\ pc[p] = "idle"
    /\ Begin(p, s, t, x)

\* the next invocation, run after the previous one has exited
InvokeNext(p, s, t, x) ==
    /\ pc[p] \in {"done", "failed"}
    /\ started < MaxAppends
    /\ Begin(p, s, t, x)

\* lines 796-801: shutil.copy2 opens the scratch file for writing (truncating it) ...
Stage(p) ==
    /\ pc[p] = "stage"
    /\ IF Exists(output_json)
       THEN /\ scratch_json' = EmptyFile
            /\ pc' = [pc EXCEPT ![p] = "stage_copy"]
       ELSE /\ scratch_json' = scratch_json
            /\ pc' = [pc EXCEPT ![p] = "read"]
    /\ UNCHANGED <<notStore, output_json, args, data, attempt, flock, holder, delay, storeHist>>

\* ... and then copies the bytes the persisted file holds at that moment
StageCopy(p) ==
    /\ pc[p] = "stage_copy"
    /\ scratch_json' = output_json
    /\ pc' = [pc EXCEPT ![p] = "read"]
    /\ UNCHANGED <<notStore, output_json, args, data, attempt, flock, holder, delay, storeHist>>

\* lines 806-825 applied to the dict d just read, then on to _safe_write_json_file
AfterRead(p, d) ==
    LET a == args[p] IN
    IF RaisesKeyError(d, a.sample_name, a.file_type)
    THEN /\ pc' = [pc EXCEPT ![p] = "failed"]
         /\ data' = [data EXCEPT ![p] = d]
    ELSE /\ pc' = [pc EXCEPT ![p] = "write"]
         /\ data' = [data EXCEPT ![p] = Modified(d, a.sample_name, a.file_type, a.file_path)]

\* _safe_read_json_file, lines 647-648: no file, no lock, {}
ReadMissing(p) ==
    /\ pc[p] = "read"
    /\ ~Exists(scratch_json)
    /\ AfterRead(p, EmptyDict)
    /\ attempt' = [attempt EXCEPT ![p] = 0]
    /\ delay' = [delay EXCEPT ![p] = 0]
    /\ UNCHANGED <<notStore, output_json, scratch_json, args, flock, holder, storeHist>>

\* lines 651-654: flock(LOCK_SH | LOCK_NB) succeeds
ReadLock(p) ==
    /\ pc[p] = "read"
    /\ Exists(scratch_json)
    /\ CanLockShared(p)
    /\ flock' = [flock EXCEPT ![p] = "sh"]
    /\ pc' = [pc EXCEPT ![p] = "read_locked"]
    /\ attempt' = [attempt EXCEPT ![p] = 0]
    /\ delay' = [delay EXCEPT ![p] = 0]
    /\ UNCHANGED <<notStore, output_json, scratch_json, args, data, holder, storeHist>>

\* lines 657-662: read and parse under the shared lock; closing the file drops it
ReadLocked(p) ==
    /\ pc[p] = "read_locked"
    /\ AfterRead(p, ParsedContent(scratch_json))
    /\ flock' = [flock EXCEPT ![p] = "none"]
    /\ UNCHANGED <<notStore, output_json, scratch_json, args, attempt, holder, delay, storeHist>>

\* lines 664-670: the lock is taken, sleep and try again
ReadRetry(p) ==
    /\ pc[p] = "read"
    /\ Exists(scratch_json)
    /\ ~CanLockShared(p)
    /\ attempt[p] < max_retries - 1
    /\ delay' = [delay EXCEPT ![p] = Backoff(attempt[p])]
    /\ attempt' = [attempt EXCEPT ![p] = @ + 1]
    /\ UNCHANGED <<notStore, output_json, scratch_json, pc, args, data, flock, holder, storeHist>>

\* lines 671-672, 687-688, 844-846: the last attempt fails, the call exits with 1
ReadGiveUp(p) ==
    /\ pc[p] = "read"
    /\ Exists(scratch_json)
    /\ ~CanLockShared(p)
    /\ attempt[p] >= max_retries - 1
    /\ pc' = [pc EXCEPT ![p] = "failed"]
    /\ UNCHANGED <<notStore, output_json, scratch_json, args, data, attempt, delay, flock, holder,
                   storeHist>>

\* _safe_write_json_file, lines 711-714: open 'r+' and flock(LOCK_EX | LOCK_NB) succeed
WriteLock(p) ==
    /\ pc[p] = "write"
    /\ Exists(scratch_json)
    /\ CanLockExclusive(p)
    /\ flock' = [flock EXCEPT ![p] = "ex"]
    /\ pc' = [pc EXCEPT ![p] = "write_locked"]
    /\ attempt' = [attempt EXCEPT ![p] = 0]
    /\ delay' = [delay EXCEPT ![p] = 0]
    /\ UNCHANGED <<notStore, output_json, scratch_json, args, data, holder, storeHist>>

\* lines 716-721 and 740-742: overwrite the whole file, flush, fsync
WriteLocked(p) ==
    /\ pc[p] = "write_locked"
    /\ scratch_json' = JsonFile(data[p])
    /\ pc' = [pc EXCEPT ![p] = "written"]
    /\ UNCHANGED <<notStore, output_json, args, data, attempt, delay, flock, holder, storeHist>>

\* lines 723 and 743: return; leaving the with block closes the file, which
\* drops the lock
WriteReturn(p) ==
    /\ pc[p] = "written"
    /\ flock' = [flock EXCEPT ![p] = "none"]
    /\ pc' = [pc EXCEPT ![p] = "publish"]
    /\ UNCHANGED <<notStore, output_json, scratch_json, args, data, attempt, delay, holder,
                   storeHist>>

\* lines 725-731 and 744-748: the lock is taken, sleep and go round the loop again
WriteRetry(p) ==
    /\ \/ pc[p] = "write" /\ Exists(scratch_json)
       \/ pc[p] = "create_lock"
    /\ ~CanLockExclusive(p)
    /\ attempt[p] < max_retries - 1
    /\ delay' = [delay EXCEPT ![p] = Backoff(attempt[p])]
    /\ attempt' = [attempt EXCEPT ![p] = @ + 1]
    /\ pc' = [pc EXCEPT ![p] = "write"]
    /\ UNCHANGED <<notStore, output_json, scratch_json, args, data, flock, holder, storeHist>>

\* lines 732-733, 749-750, 756-757, 844-846: the last attempt fails, exit with 1
WriteGiveUp(p) ==
    /\ \/ pc[p] = "write" /\ Exists(scratch_json)
       \/ pc[p] = "create_lock"
    /\ ~CanLockExclusive(p)
    /\ attempt[p] >= max_retries - 1
    /\ pc' = [pc EXCEPT ![p] = "failed"]
    /\ UNCHANGED <<notStore, output_json, scratch_json, args, data, attempt, delay, flock, holder,
                   storeHist>>

\* line 735: open 'r+' raises FileNotFoundError
WriteMissing(p) ==
    /\ pc[p] = "write"
    /\ ~Exists(scratch_json)
    /\ pc' = [pc EXCEPT ![p] = "create"]
    /\ UNCHANGED <<notStore, output_json, scratch_json, args, data, attempt, delay, flock, holder,
                   storeHist>>

\* line 737: open 'w' creates the file, or empties the one created meanwhile
Create(p) ==
    /\ pc[p] = "create"
    /\ scratch_json' = EmptyFile
    /\ pc' = [pc EXCEPT ![p] = "create_lock"]
    /\ UNCHANGED <<notStore, output_json, args, data, attempt, flock, holder, delay, storeHist>>

\* line 739: flock(LOCK_EX | LOCK_NB) on the new file succeeds
CreateLock(p) ==
    /\ pc[p] = "create_lock"
    /\ CanLockExclusive(p)
    /\ flock' = [flock EXCEPT ![p] = "ex"]
    /\ pc' = [pc EXCEPT ![p] = "write_locked"]
    /\ attempt' = [attempt EXCEPT ![p] = 0]
    /\ delay' = [delay EXCEPT ![p] = 0]
    /\ UNCHANGED <<notStore, output_json, scratch_json, args, data, holder, storeHist>>

\* line 833: shutil.copy2 opens the persisted file for writing (truncating it) ...
Publish(p) ==
    /\ pc[p] = "publish"
    /\ replaced' = [replaced EXCEPT ![p] = output_json]
    /\ output_json' = EmptyFile
    /\ pc' = [pc EXCEPT ![p] = "publish_copy"]
    /\ UNCHANGED <<notStore, scratch_json, args, data, attempt, delay, flock, holder,
                   started, snapshot, held, ever, history>>

\* ... copies the bytes the scratch file holds at that moment, and the call returns
PublishCopy(p) ==
    /\ pc[p] = "publish_copy"
    /\ output_json' = scratch_json
    /\ pc' = [pc EXCEPT ![p] = "done"]
    /\ ever' = ever \cup Entries(scratch_json)
    /\ history' = Append(history,
                         <<args[p].sample_name, args[p].file_type, args[p].file_path>>)
    /\ UNCHANGED <<notStore, scratch_json, args, data, attempt, delay, flock, holder,
                   started, snapshot, replaced, held>>

----------------------------------------------------------------------------
(* a foreign process holding the flock on the scratch file *)

HolderLock(m) ==
    /\ holder = "none"
    /\ Exists(scratch_json)
    /\ IF m = "ex" THEN \A q \in Procs : flock[q] = "none"
                   ELSE \A q \in Procs : flock[q] # "ex"
    /\ holder' = m
    /\ UNCHANGED <<notStore, output_json, scratch_json, pc, args, data, attempt, delay, flock,
                   storeHist>>

HolderUnlock ==
    /\ holder # "none"
    /\ holder' = "none"
    /\ held' = [p \in Procs |-> held[p] /\ ~Running(p)]
    /\ UNCHANGED <<notStore, output_json, scratch_json, pc, args, data, attempt, delay, flock,
                   started, snapshot, replaced, ever, history>>

----------------------------------------------------------------------------
(* The specifications of the manifest store *)

\* the variables of the other sub-commands, which do not run
RelIdle ==
    /\ sample_data = EmptyDict
    /\ cohort = FALSE
    /\ rpc = "off"
    /\ processed_samples = {}
    /\ current_group = {}
    /\ to_process = <<>>
    /\ remaining = {}
    /\ seeds = <<>>
    /\ enqueued = <<>>
    /\ relationships = EmptyDict
    /\ output_lines = <<>>

StoreIdle ==
    /\ output_json = MissingFile
    /\ scratch_json = MissingFile
    /\ pc = [p \in Procs |-> "idle"]
    /\ args = [p \in Procs |-> [sample_name |-> "S1", file_type |-> "cnv", file_path |-> "/a/x.vcf"]]
    /\ data = [p \in Procs |-> EmptyDict]
    /\ attempt = [p \in Procs |-> 0]
    /\ delay = [p \in Procs |-> 0]
    /\ flock = [p \in Procs |-> "none"]
    /\ holder = "none"
    /\ started = 0
    /\ snapshot = [p \in Procs |-> MissingFile]
    /\ replaced = [p \in Procs |-> MissingFile]
    /\ held = [p \in Procs |-> FALSE]
    /\ ever = {}
    /\ history = <<>>

table_types == {"cnv", "breakend", "region"}

TabIdle ==
    /\ tpc = "off"
    /\ matching_tables = [t \in table_types |-> <<>>]
    /\ table_ids = [t \in table_types |-> <<>>]

\* lines 98-102: the flags before the scan
AlgIdle ==
    /\ apc = "off"
    /\ algorithms = <<>>
    /\ alg_scanned = 0
    /\ import_algorithms = [t \in table_types |-> FALSE]

\* line 263: nothing merged
MergeIdle ==
    /\ mpc = "off"
    /\ json_files = <<>>
    /\ merge_index = 0
    /\ merged_data = EmptyDict

\* line 323: no command yet
GenIdle ==
    /\ gpc = "off"
    /\ sample_group = <<>>
    /\ overwrite_project = TRUE
    /\ vsbatch_lines = <<>>

\* line 569: no data line yet
CnvIdle ==
    /\ cpc = "off"
    /\ cn_fields = <<>>
    /\ lines_done = 0
    /\ updated_lines = <<>>

\* no call of the several-documents model runs
DirIdle ==
    /\ dpc = "off"
    /\ call = [sample_name |-> "A", task_name |-> "C", file_type |-> "cnv",
               file_path |-> "/a/x.vcf"]
    /\ input_dir = EmptyDict
    /\ scratch_dir = EmptyDict
    /\ calls = 0

\* generate_vsbatch_file is not staging
BatchIdle ==
    /\ sample_data_files = <<>>
    /\ use_scratch = FALSE
    /\ staged = EmptyDict
    /\ copied = 0

StoreInit ==
    /\ mode = "update-vspipeline-json"
    /\ CnvIdle
    /\ DirIdle
    /\ BatchIdle
    /\ RelIdle
    /\ TabIdle
    /\ AlgIdle
    /\ MergeIdle
    /\ GenIdle
    /\ StoreIdle

Step(p) ==
    \/ \E s \in Samples, t \in InputTypes, x \in Paths : Invoke(p, s, t, x)
    \/ Stage(p)
    \/ StageCopy(p)
    \/ ReadMissing(p)
    \/ ReadLock(p)
    \/ ReadLocked(p)
    \/ ReadRetry(p)
    \/ ReadGiveUp(p)
    \/ WriteLock(p)
    \/ WriteLocked(p)
    \/ WriteReturn(p)
    \/ WriteRetry(p)
    \/ WriteGiveUp(p)
    \/ WriteMissing(p)
    \/ Create(p)
    \/ CreateLock(p)
    \/ Publish(p)
    \/ PublishCopy(p)

Init == StoreInit

Next == \E p \in Procs : Step(p)

Spec == Init /\ [][Next]_vars

NextSeq ==
    \/ Step(Writer)
    \/ \E s \in Samples, t \in InputTypes, x \in Paths : InvokeNext(Writer, s, t, x)
    \/ \E m \in {"sh", "ex"} : HolderLock(m)
    \/ HolderUnlock

SpecSeq == Init /\ [][NextSeq]_vars

----------------------------------------------------------------------------
(* Claims about the manifest store *)

EntryOf(p) == <<args[p].sample_name, args[p].file_type, args[p].file_path>>

DistinctPaths == \A p, q \in Procs : p # q => args[p].file_path # args[q].file_path

\* C1: once every one of the concurrent invocations, each appending a distinct
\* path to the same document, has returned without error, the persisted
\* document lists every appended path.
C1_NoEntryLost ==
    ((\A p \in Procs : pc[p] = "done") /\ DistinctPaths)
        => \A p \in Procs : EntryOf(p) \in Entries(output_json)

\* a process that has read the scratch copy and not yet completed its write of it
BetweenReadAndWrite(p) == pc[p] \in {"write", "create", "create_lock", "write_locked"}

\* C2: read, modification and overwrite of the scratch copy happen under one
\* uninterrupted exclusive lock, so no two appends to the same document are
\* both between reading the scratch copy and completing their write of it.
C2_ReadToWriteExclusive ==
    \A p, q \in Procs :
        (p # q /\ BetweenReadAndWrite(p)) => ~BetweenReadAndWrite(q)

\* the paths of the returned appends to (s, t), in the order of the calls
Appended(s, t) == SelectSeq(history, LAMBDA e : e[1] = s /\ e[2] = t)

FirstIndex(x, l) == CHOOSE i \in 1 .. Len(l) : l[i] = x /\ \A j \in 1 .. (i - 1) : l[j] # x

\* l holds exactly the distinct elements of h, each once, in order of first occurrence
IsFirstOccurrenceList(l, h) ==
    /\ { l[i] : i \in 1 .. Len(l) } = { h[i][3] : i \in 1 .. Len(h) }
    /\ \A i, j \in 1 .. Len(l) : i # j => l[i] # l[j]
    /\ \A i, j \in 1 .. Len(l) :
           i < j => FirstIndex(l[i], [k \in 1 .. Len(h) |-> h[k][3]])
                      < FirstIndex(l[j], [k \in 1 .. Len(h) |-> h[k][3]])

\* C3: with a single writer, after any sequence of appends that returned the
\* stored list of each (sample, file type) holds exactly the distinct paths
\* appended to it, each once, in order of first append; appending a path
\* that is already in the list leaves the list as it was.
C3_SingleWriterAppend ==
    ~Running(Writer) =>
        /\ \A s \in Samples, t \in valid_file_types :
               IsFirstOccurrenceList(StoredList(output_json, s, t), Appended(s, t))
        /\ (pc[Writer] = "done"
            /\ InList(args[Writer].file_path,
                      StoredList(snapshot[Writer], args[Writer].sample_name,
                                 args[Writer].file_type)))
               => StoredList(output_json, args[Writer].sample_name, args[Writer].file_type)
                    = StoredList(snapshot[Writer], args[Writer].sample_name,
                                 args[Writer].file_type)

\* three appends have returned, the third repeating the path of the first
C3_Witness ==
    /\ pc[Writer] = "done"
    /\ Len(history) = 3
    /\ history[3] = history[1]
    /\ history[2][2] = history[1][2]
    /\ history[2][3] # history[1][3]
    /\ Len(StoredList(output_json, history[1][1], history[1][2])) = 2

\* C4: an entry once present in the persisted document is never removed.
\* Stated for the states in which the persisted file holds a whole document
\* (no copy onto it is in progress), which the claim covers a fortiori.
C4_PersistedMonotone ==
    output_json.st = "json" => ever \subseteq Entries(output_json)

\* C5: when a foreign holder keeps its lock on the scratch copy from before the
\* append begins until it ends, the append never takes the exclusive lock and
\* never publishes, ends with exit status 1, and the persisted document is
\* what it was when the append began; and an append that ended in an error
\* has left the persisted document as it found it.
C5_LockExhaustionFatal ==
    \A p \in Procs :
        /\ held[p] =>
              /\ pc[p] \notin {"write_locked", "written", "publish", "publish_copy", "done"}
              /\ output_json = snapshot[p]
              /\ ~Running(p) => (pc[p] = "failed" /\ ExitStatus(p) = 1)
        /\ pc[p] = "failed" => output_json = snapshot[p]

\* the holder outlasted the retry budget of an append to an existing document
C5_Witness ==
    \E p \in Procs :
        /\ held[p] /\ holder # "none"
        /\ pc[p] = "failed"
        /\ attempt[p] = max_retries - 1
        /\ Entries(output_json) # {}

----------------------------------------------------------------------------
(* Strings are sequences of character codes; Python compares them            *)
(* lexicographically by code point                                           *)

LexLess(a, b) ==
    \E i \in 1 .. (Len(a) + 1) :
        /\ \A j \in 1 .. (i - 1) : j <= Len(b) /\ a[j] = b[j]
        /\ \/ i = Len(a) + 1 /\ Len(b) >= i
           \/ i <= Len(a) /\ i <= Len(b) /\ a[i] < b[i]

\* min(names)
MinName(S) == CHOOSE x \in S : \A y \in S \ {x} : LexLess(x, y)

\* sorted(names), for a set or the keys of a dict
RECURSIVE SortedSeq(_)
SortedSeq(S) ==
    IF S = {} THEN <<>>
    ELSE LET m == MinName(S) IN <<m>> \o SortedSeq(S \ {m})

Range(l) == { l[i] : i \in 1 .. Len(l) }

Reversed(l) == [i \in 1 .. Len(l) |-> l[Len(l) + 1 - i]]

----------------------------------------------------------------------------
(* The metadata tables find_sample_relationships is run on *)

MaxMeta == 2        \* metadata values per row

\* "A", "AA", "B"
SampleNames == { <<65>>, <<65, 65>>, <<66>> }
\* a metadata value is one of those names; it names no sample of a table
\* that lacks the name
MetaValues == SampleNames

MetaLists == UNION { [1 .. n -> MetaValues] : n \in 0 .. MaxMeta }
Tables == UNION { [S -> MetaLists] : S \in SUBSET SampleNames }

\* the key of line 483
CohortKey == <<99, 111, 104, 111, 114, 116>>

all_samples == DOMAIN sample_data

----------------------------------------------------------------------------
(* find_sample_relationships and _find_connected_samples *)

SeedNeverSkipped(sample) == FALSE

\* lines 490-491
SeedSkipped(sample) == sample \in processed_samples

ReferencedByVisitedToo(current_sample, processed) ==
    { other_sample \in DOMAIN sample_data :
        InList(current_sample, sample_data[other_sample]) }

\* lines 419-426: the unprocessed samples whose metadata holds current_sample
ReferencedBy(current_sample, processed) ==
    { other_sample \in DOMAIN sample_data :
        /\ other_sample \notin processed
        /\ InList(current_sample, sample_data[other_sample]) }

OwnReferencesNone(values, processed) == <<>>

\* lines 429-433: the values of current_sample's metadata that name an
\* unprocessed sample, in the order the loop adds them
RECURSIVE OwnReferences(_, _)
OwnReferences(values, processed) ==
    IF values = <<>> THEN <<>>
    ELSE LET v == Head(values) IN
         IF v \in all_samples /\ v \notin processed
         THEN <<v>> \o OwnReferences(Tail(values), processed \cup {v})
         ELSE OwnReferences(Tail(values), processed)

\* the orders in which a dict iteration can meet the members of S
Orderings(S) ==
    { f \in [1 .. Cardinality(S) -> S] : \A i, j \in 1 .. Cardinality(S) : i # j => f[i] # f[j] }

CohortRelationshipsSplit(samples) ==
    [k \in samples |-> <<k>>]

\* lines 480-484
CohortRelationships(samples) ==
    IF samples # {} THEN (CohortKey :> SortedSeq(samples)) ELSE EmptyDict

OutputOrderReversed(keys) == Reversed(SortedSeq(keys))

\* line 447: sorted(relationships.keys())
OutputOrder(keys) == SortedSeq(keys)

notRel == <<mode, storeVars, tabVars, algVars, mergeVars, genVars, cnvVars, dirVars, batchVars>>

\* lines 480-484: --cohort
CohortGroup ==
    /\ rpc = "cohort"
    /\ relationships' = CohortRelationships(all_samples)
    /\ rpc' = "output"
    /\ UNCHANGED <<notRel, enqueued, sample_data, cohort, processed_samples, current_group,
                   to_process, remaining, seeds, output_lines>>

\* lines 489-491: the loop meets a sample a traversal has already taken
SkipSample(sample) ==
    /\ rpc = "loop"
    /\ sample \in remaining
    /\ SeedSkipped(sample)
    /\ remaining' = remaining \ {sample}
    /\ UNCHANGED <<notRel, enqueued, sample_data, cohort, rpc, processed_samples, current_group,
                   to_process, seeds, relationships, output_lines>>

\* lines 489-493 and 411-413: the loop meets an unvisited sample and seeds a traversal
SeedSample(sample) ==
    /\ rpc = "loop"
    /\ sample \in remaining
    /\ ~SeedSkipped(sample)
    /\ remaining' = remaining \ {sample}
    /\ current_group' = {sample}
    /\ processed_samples' = processed_samples \cup {sample}
    /\ to_process' = <<sample>>
    /\ seeds' = Append(seeds, sample)
    /\ enqueued' = Append(enqueued, sample)
    /\ rpc' = "bfs"
    /\ UNCHANGED <<notRel, sample_data, cohort, relationships, output_lines>>

\* lines 415-433: one round of the while loop
BfsStep ==
    /\ rpc = "bfs"
    /\ to_process # <<>>
    /\ LET current_sample == Head(to_process)
           found == ReferencedBy(current_sample, processed_samples)
       IN \E order \in Orderings(found) :
            LET own == OwnReferences(sample_data[current_sample],
                                     processed_samples \cup found)
            IN /\ current_group' = current_group \cup found \cup Range(own)
               /\ processed_samples' = processed_samples \cup found \cup Range(own)
               /\ to_process' = Tail(to_process) \o order \o own
               /\ enqueued' = enqueued \o order \o own
    /\ UNCHANGED <<notRel, sample_data, cohort, rpc, remaining, seeds, relationships,
                   output_lines>>

\* lines 435 and 494-495: the frontier is empty, the group is stored under its key
ReturnGroup ==
    /\ rpc = "bfs"
    /\ to_process = <<>>
    /\ LET group_key == MinName(current_group) IN
       relationships' = [k \in DOMAIN relationships \cup {group_key} |->
                            IF k = group_key THEN SortedSeq(current_group)
                            ELSE relationships[k]]
    /\ rpc' = "loop"
    /\ UNCHANGED <<notRel, enqueued, sample_data, cohort, processed_samples, current_group,
                   to_process, remaining, seeds, output_lines>>

\* line 489: the loop has visited every sample
LoopDone ==
    /\ rpc = "loop"
    /\ remaining = {}
    /\ rpc' = "output"
    /\ UNCHANGED <<notRel, enqueued, sample_data, cohort, processed_samples, current_group,
                   to_process, remaining, seeds, relationships, output_lines>>

\* _output_sample_groups, lines 446-450
OutputGroups ==
    /\ rpc = "output"
    /\ LET keys == OutputOrder(DOMAIN relationships) IN
       output_lines' = [i \in 1 .. Len(keys) |-> relationships[keys[i]]]
    /\ rpc' = "done"
    /\ UNCHANGED <<notRel, enqueued, sample_data, cohort, processed_samples, current_group,
                   to_process, remaining, seeds, relationships>>

RelInit ==
    /\ mode = "find-relationships"
    /\ CnvIdle
    /\ DirIdle
    /\ BatchIdle
    /\ StoreIdle
    /\ TabIdle
    /\ AlgIdle
    /\ MergeIdle
    /\ GenIdle
    /\ sample_data \in Tables
    /\ cohort \in BOOLEAN
    /\ rpc = IF cohort THEN "cohort" ELSE "loop"
    /\ processed_samples = {}
    /\ current_group = {}
    /\ to_process = <<>>
    /\ remaining = DOMAIN sample_data
    /\ seeds = <<>>
    /\ enqueued = <<>>
    /\ relationships = EmptyDict
    /\ output_lines = <<>>

RelNext ==
    \/ CohortGroup
    \/ \E sample \in SampleNames : SkipSample(sample)
    \/ \E sample \in SampleNames : SeedSample(sample)
    \/ BfsStep
    \/ ReturnGroup
    \/ LoopDone
    \/ OutputGroups

SpecRel == RelInit /\ [][RelNext]_vars

----------------------------------------------------------------------------
(* Claims about the group resolver *)

\* the Relationship Graph: an edge joins a and b when either names the other
Edge(a, b) == InList(b, sample_data[a]) \/ InList(a, sample_data[b])

\* a and b are joined by a path of edges (a is joined to itself)
Connected(a, b) ==
    \E n \in 1 .. Cardinality(all_samples) :
        \E path \in [1 .. n -> all_samples] :
            /\ path[1] = a
            /\ path[n] = b
            /\ \A i \in 1 .. (n - 1) : Edge(path[i], path[i + 1])

SameGroup(a, b) ==
    \E i \in 1 .. Len(output_lines) :
        a \in Range(output_lines[i]) /\ b \in Range(output_lines[i])

\* the places of the output that hold sample s
Places(s) ==
    { <<i, j>> \in (1 .. Len(output_lines)) \X (1 .. Cardinality(SampleNames)) :
        j <= Len(output_lines[i]) /\ output_lines[i][j] = s }

\* C6: in non-cohort mode the groups written partition the Sample Set: every
\* sample of the table is in exactly one group, no group holds a name that is
\* not a sample of the table, groups are pairwise disjoint and none is empty.
C6_Partition ==
    (rpc = "done" /\ ~cohort) =>
        /\ \A s \in all_samples : Cardinality(Places(s)) = 1
        /\ \A i \in 1 .. Len(output_lines) :
               /\ output_lines[i] # <<>>
               /\ Range(output_lines[i]) \subseteq all_samples
        /\ \A i, j \in 1 .. Len(output_lines) :
               i # j => Range(output_lines[i]) \cap Range(output_lines[j]) = {}

\* three samples in two groups, a traversal having been seeded from a
\* sample that only names its partner
C6_Witness ==
    /\ rpc = "done" /\ ~cohort
    /\ Cardinality(all_samples) = 3
    /\ Len(output_lines) = 2
    /\ \E i \in 1 .. 2 : Len(output_lines[i]) = 2

\* C7: in non-cohort mode two samples are in the same group if and only if a
\* path of the undirected Relationship Graph joins them.
C7_ConnectedComponents ==
    (rpc = "done" /\ ~cohort) =>
        \A a, b \in all_samples : SameGroup(a, b) <=> Connected(a, b)

\* a chain: a names b, c names b, neither of a and c names the other, and
\* the traversal was seeded at a, which no sample names
C7_Witness ==
    /\ rpc = "done" /\ ~cohort
    /\ \E a, b, c \in all_samples :
          /\ a # b /\ b # c /\ a # c
          /\ InList(b, sample_data[a]) /\ ~InList(a, sample_data[b])
          /\ InList(b, sample_data[c]) /\ ~InList(c, sample_data[b])
          /\ ~Edge(a, c)
          /\ seeds = <<a>>
          /\ SameGroup(a, c)

\* C8 as claimed: with --cohort the output is exactly one group holding all
\* samples of the table, for every table.
C8_CohortOneGroup ==
    (rpc = "done" /\ cohort) =>
        /\ Len(output_lines) = 1
        /\ Range(output_lines[1]) = all_samples

\* C8 as amended: with --cohort and a table of at least one sample the output
\* is exactly one group, holding every sample once; with a table of no
\* sample the output holds no group.
C8_CohortOneGroupIfAnySample ==
    (rpc = "done" /\ cohort) =>
        IF all_samples # {}
        THEN /\ Len(output_lines) = 1
             /\ Range(output_lines[1]) = all_samples
             /\ Len(output_lines[1]) = Cardinality(all_samples)
        ELSE output_lines = <<>>

\* a cohort of three samples none of which names another
C8_Witness ==
    /\ rpc = "done" /\ cohort
    /\ Cardinality(all_samples) = 3
    /\ \A a, b \in all_samples : ~Edge(a, b)
    /\ Len(output_lines) = 1

\* what the table and the mode alone determine: the groups ...
Components ==
    IF cohort
    THEN (IF all_samples = {} THEN {} ELSE {all_samples})
    ELSE { { b \in all_samples : Connected(a, b) } : a \in all_samples }

\* ... each listed in ascending order, and listed in ascending order of their
\* smallest members
IsCanonicalOutput(lines) ==
    /\ Len(lines) = Cardinality(Components)
    /\ { Range(lines[i]) : i \in 1 .. Len(lines) } = Components
    /\ \A i \in 1 .. Len(lines) :
           \A j, k \in 1 .. Len(lines[i]) : j < k => LexLess(lines[i][j], lines[i][k])
    /\ \A i, j \in 1 .. Len(lines) : i < j => LexLess(lines[i][1], lines[j][1])

\* C9: the output is a function of the table and the mode, whatever samples
\* the traversals were seeded with and in whatever order samples were scanned:
\* it is the one list of lines that holds the groups in ascending order of
\* their smallest members, each in ascending order; and in non-cohort mode
\* every group is stored under its smallest member.
C9_Deterministic ==
    rpc = "done" =>
        /\ IsCanonicalOutput(output_lines)
        /\ ~cohort => \A k \in DOMAIN relationships :
                          /\ k = relationships[k][1]
                          /\ \A m \in Range(relationships[k]) : m = k \/ LexLess(k, m)

\* the traversals were seeded in descending order of name, and the groups
\* are written in ascending order
C9_Witness ==
    /\ rpc = "done" /\ ~cohort
    /\ Len(seeds) = 2
    /\ LexLess(seeds[2], seeds[1])
    /\ Len(output_lines) = 2
    /\ \E i \in 1 .. 2 : Len(output_lines[i]) = 2

----------------------------------------------------------------------------
(* _parse_template_file, lines 117-179: the table identifier of each type *)

MaxCandidates == 3  \* userIds collected over the three table types

\* "Table"
Table == <<84, 97, 98, 108, 101>>

\* "", "1", "M", "Table", "Table1", "Table2", "Table1M", "Table1Table", "TableTable1"
UserIds ==
    { <<>>, <<49>>, <<77>>, Table, Table \o <<49>>, Table \o <<50>>, Table \o <<49, 77>>,
      Table \o <<49>> \o Table, Table \o Table \o <<49>> }

\* c.startswith(prefix)
StartsWith(c, prefix) == Len(c) >= Len(prefix) /\ SubSeq(c, 1, Len(prefix)) = prefix

\* c.replace(old, ''): every occurrence of old, met from the left, is removed
RECURSIVE Replace(_, _)
Replace(c, old) ==
    IF Len(c) < Len(old) THEN c
    ELSE IF SubSeq(c, 1, Len(old)) = old
         THEN Replace(SubSeq(c, Len(old) + 1, Len(c)), old)
         ELSE <<Head(c)>> \o Replace(Tail(c), old)

\* c.isdigit(): at least one character, all of them digits
IsDigit(c) == c # <<>> /\ \A i \in 1 .. Len(c) : c[i] \in 48 .. 57

\* lines 163-164: the test that sorts a name with the generic ones
GenericName(c) == StartsWith(c, Table) /\ IsDigit(Replace(c, Table))

\* lines 150-156: duplicates removed, first occurrences kept in order
RECURSIVE UniqueCandidates(_)
UniqueCandidates(candidates) ==
    IF candidates = <<>> THEN <<>>
    ELSE LET rest == UniqueCandidates(SubSeq(candidates, 1, Len(candidates) - 1))
             last == candidates[Len(candidates)]
         IN IF InList(last, rest) THEN rest ELSE Append(rest, last)

\* lines 145-179: None, or the userId selected among the candidates
SelectTable(candidates) ==
    LET unique_candidates == UniqueCandidates(candidates)
        custom_names == SelectSeq(unique_candidates, LAMBDA c : ~GenericName(c))
        generic_names == SelectSeq(unique_candidates, LAMBDA c : GenericName(c))
    IN IF candidates = <<>> THEN <<>>
       ELSE IF Len(unique_candidates) = 1 THEN <<unique_candidates[1]>>
       ELSE IF custom_names # <<>> THEN <<SortedSeq(Range(custom_names))[1]>>
       ELSE IF generic_names # <<>> THEN <<SortedSeq(Range(generic_names))[1]>>
       ELSE <<unique_candidates[1]>>

Collected == Len(matching_tables["cnv"]) + Len(matching_tables["breakend"])
               + Len(matching_tables["region"])

notTab == <<mode, storeVars, relVars, algVars, mergeVars, genVars, cnvVars, dirVars, batchVars>>

\* lines 124-141: a table's userId is collected for the type of one of its axes
AddCandidate(table_type, user_id) ==
    /\ tpc = "collect"
    /\ Collected < MaxCandidates
    /\ matching_tables' = [matching_tables EXCEPT ![table_type] = Append(@, user_id)]
    /\ UNCHANGED <<notTab, tpc, table_ids>>

\* lines 144-179: the selection, type by type
SelectTables ==
    /\ tpc = "collect"
    /\ table_ids' = [t \in table_types |-> SelectTable(matching_tables[t])]
    /\ tpc' = "resolved"
    /\ UNCHANGED <<notTab, matching_tables>>

TabInit ==
    /\ mode = "generate-vsbatch"
    /\ CnvIdle
    /\ DirIdle
    /\ BatchIdle
    /\ StoreIdle
    /\ RelIdle
    /\ AlgIdle
    /\ MergeIdle
    /\ GenIdle
    /\ tpc = "collect"
    /\ matching_tables = [t \in table_types |-> <<>>]
    /\ table_ids = [t \in table_types |-> <<>>]

TabNext ==
    \/ \E table_type \in table_types, user_id \in UserIds : AddCandidate(table_type, user_id)
    \/ SelectTables

SpecTab == TabInit /\ [][TabNext]_vars

----------------------------------------------------------------------------
(* Claims about the table selection *)

\* "Table" followed by one or more digits and nothing else
TableAndDigits(c) ==
    /\ Len(c) > Len(Table)
    /\ StartsWith(c, Table)
    /\ \A i \in (Len(Table) + 1) .. Len(c) : c[i] \in 48 .. 57

\* the smallest custom name if there is one, else the smallest name
SmallestPreferringCustom(names) ==
    LET custom == { c \in names : ~TableAndDigits(c) } IN
    IF custom # {} THEN MinName(custom) ELSE MinName(names)

\* C10: when the deduplicated candidates of a type are more than one, the
\* selected identifier is the lexicographically smallest of the names that are
\* not "Table" followed only by digits, if there is one, and otherwise the
\* lexicographically smallest name.
C10_TableSelection ==
    tpc = "resolved" =>
        \A t \in table_types :
            Cardinality(Range(matching_tables[t])) > 1 =>
                table_ids[t] = <<SmallestPreferringCustom(Range(matching_tables[t]))>>

----------------------------------------------------------------------------
(* _parse_template_file, lines 181-204: the algorithm flags *)

MaxAlgorithms == 2  \* algorithms in the dataTrees of the template

\* "Import CNV", "import bnd", "IMPORT BREAKEND", "Region Import", "CNV Caller",
\* "Import CNV Region", "Import Bnd Regions", "Import"
AlgNames ==
    { <<73, 109, 112, 111, 114, 116, 32, 67, 78, 86>>,
      <<105, 109, 112, 111, 114, 116, 32, 98, 110, 100>>,
      <<73, 77, 80, 79, 82, 84, 32, 66, 82, 69, 65, 75, 69, 78, 68>>,
      <<82, 101, 103, 105, 111, 110, 32, 73, 109, 112, 111, 114, 116>>,
      <<67, 78, 86, 32, 67, 97, 108, 108, 101, 114>>,
      <<73, 109, 112, 111, 114, 116, 32, 67, 78, 86, 32, 82, 101, 103, 105, 111, 110>>,
      <<73, 109, 112, 111, 114, 116, 32, 66, 110, 100, 32, 82, 101, 103, 105, 111, 110, 115>>,
      <<73, 109, 112, 111, 114, 116>> }

\* the keywords of lines 198-203: "import", "cnv", "breakend", "bnd", "region"
KwImport == <<105, 109, 112, 111, 114, 116>>
KwCnv == <<99, 110, 118>>
KwBreakend == <<98, 114, 101, 97, 107, 101, 110, 100>>
KwBnd == <<98, 110, 100>>
KwRegion == <<114, 101, 103, 105, 111, 110>>

\* str.lower() on ASCII
Lower(c) == [i \in 1 .. Len(c) |-> IF c[i] \in 65 .. 90 THEN c[i] + 32 ELSE c[i]]

\* sub in c
Contains(c, sub) ==
    \E i \in 1 .. (Len(c) - Len(sub) + 1) : SubSeq(c, i, i + Len(sub) - 1) = sub

\* lines 198-204: the one flag an algorithm name sets, <<>> when it sets none
FlagSet(alg_name) ==
    LET n == Lower(alg_name) IN
    IF ~Contains(n, KwImport) THEN <<>>
    ELSE IF Contains(n, KwCnv) THEN <<"cnv">>
    ELSE IF Contains(n, KwBreakend) \/ Contains(n, KwBnd) THEN <<"breakend">>
    ELSE IF Contains(n, KwRegion) THEN <<"region">>
    ELSE <<>>

notAlg == <<mode, storeVars, relVars, tabVars, mergeVars, genVars, cnvVars, dirVars, batchVars>>

\* lines 193-204: the loop inspects the next algorithm
ScanAlgorithm ==
    /\ apc = "scan"
    /\ alg_scanned < Len(algorithms)
    /\ alg_scanned' = alg_scanned + 1
    /\ import_algorithms' =
           [t \in table_types |->
               import_algorithms[t] \/ FlagSet(algorithms[alg_scanned + 1]) = <<t>>]
    /\ UNCHANGED <<notAlg, apc, algorithms>>

\* lines 206-209: every algorithm has been inspected, the result is returned
ReturnFlags ==
    /\ apc = "scan"
    /\ alg_scanned = Len(algorithms)
    /\ apc' = "returned"
    /\ UNCHANGED <<notAlg, algorithms, alg_scanned, import_algorithms>>

AlgInit ==
    /\ mode = "generate-vsbatch"
    /\ CnvIdle
    /\ DirIdle
    /\ BatchIdle
    /\ StoreIdle
    /\ RelIdle
    /\ TabIdle
    /\ MergeIdle
    /\ GenIdle
    /\ apc = "scan"
    /\ algorithms \in UNION { [1 .. n -> AlgNames] : n \in 0 .. MaxAlgorithms }
    /\ alg_scanned = 0
    /\ import_algorithms = [t \in table_types |-> FALSE]

AlgNext == ScanAlgorithm \/ ReturnFlags

SpecAlg == AlgInit /\ [][AlgNext]_vars

----------------------------------------------------------------------------
(* Claims about the algorithm flags *)

\* the keyword of a category is in the lower-cased name
HasKeyword(n, t) ==
    IF t = "cnv" THEN Contains(n, KwCnv)
    ELSE IF t = "breakend" THEN Contains(n, KwBreakend) \/ Contains(n, KwBnd)
    ELSE Contains(n, KwRegion)

\* C11: each availability flag is true if and only if some algorithm name,
\* compared case-insensitively, contains "import" and the keyword of that
\* category; the three flags are decided independently of each other.
C11_FlagsIndependent ==
    apc = "returned" =>
        \A t \in table_types :
            import_algorithms[t] <=>
                \E i \in 1 .. Len(algorithms) :
                    /\ Contains(Lower(algorithms[i]), KwImport)
                    /\ HasKeyword(Lower(algorithms[i]), t)

----------------------------------------------------------------------------
(* _merge_vspipeline_json_files, lines 252-292 *)

MaxDocuments == 2   \* files passed to the merger

\* the order of line 282
file_types == <<"multiverse", "cnv", "bnd", "region">>

MergeSamples == {"S1", "S2"}

\* the lists a supplied document holds under a file type
ManifestLists ==
    { <<"/a/x.vcf">>, <<"/a/y.vcf">>, <<"/a/x.vcf", "/a/y.vcf">>,
      <<"/a/y.vcf", "/a/x.vcf">>, <<"/a/x.vcf", "/a/x.vcf">> }

\* the entry of a sample: some of the file types may be absent
SampleInfos ==
    {EmptyDict} \cup { ("cnv" :> l) : l \in ManifestLists }
        \cup { ("cnv" :> <<"/a/x.vcf">>) @@ ("bnd" :> <<"/a/y.vcf">>) }

\* the supplied files: a document with or without "samples", or a file that
\* json.load rejects
ManifestFiles ==
    {EmptyFile, JsonFile(EmptyDict)}
        \cup { JsonFile("samples" :> f) :
                 f \in UNION { [S -> SampleInfos] : S \in SUBSET MergeSamples } }

\* dict.get(key, default)
Get(d, key, default) == IF key \in DOMAIN d THEN d[key] ELSE default

MergeListNoDedup(merged, files) == merged \o files

\* lines 284-286: the paths of files not yet in merged are appended in order
RECURSIVE MergeList(_, _)
MergeList(merged, files) ==
    IF files = <<>> THEN merged
    ELSE MergeList(IF InList(Head(files), merged) THEN merged
                   ELSE Append(merged, Head(files)), Tail(files))

\* lines 272-286: the samples of one document merged into merged
MergeSamplesOf(merged, samples) ==
    [sample_name \in DOMAIN merged \cup DOMAIN samples |->
        LET before == IF sample_name \in DOMAIN merged THEN merged[sample_name]
                      ELSE [t \in Range(file_types) |-> <<>>]
        IN IF sample_name \notin DOMAIN samples THEN before
           ELSE [t \in Range(file_types) |->
                    MergeList(before[t], Get(samples[sample_name], t, <<>>))]]

\* lines 266-290: one file; json.load raising leaves merged_data as it is
MergedWith(merged, f) ==
    IF f.st # "json" THEN merged
    ELSE MergeSamplesOf(merged, Get(f.doc, "samples", EmptyDict))

notMerge == <<mode, storeVars, relVars, tabVars, algVars, genVars, cnvVars, dirVars, batchVars>>

\* lines 265-290: one round of the loop over json_files
MergeFile ==
    /\ mpc = "merge"
    /\ merge_index < Len(json_files)
    /\ merged_data' = MergedWith(merged_data, json_files[merge_index + 1])
    /\ merge_index' = merge_index + 1
    /\ UNCHANGED <<notMerge, mpc, json_files>>

\* line 292
ReturnMerged ==
    /\ mpc = "merge"
    /\ merge_index = Len(json_files)
    /\ mpc' = "returned"
    /\ UNCHANGED <<notMerge, json_files, merge_index, merged_data>>

MergeInit ==
    /\ mode = "generate-vsbatch"
    /\ CnvIdle
    /\ DirIdle
    /\ BatchIdle
    /\ StoreIdle
    /\ RelIdle
    /\ TabIdle
    /\ AlgIdle
    /\ GenIdle
    /\ mpc = "merge"
    /\ json_files \in UNION { [1 .. n -> ManifestFiles] : n \in 0 .. MaxDocuments }
    /\ merge_index = 0
    /\ merged_data = EmptyDict

MergeNext == MergeFile \/ ReturnMerged

SpecMerge == MergeInit /\ [][MergeNext]_vars

----------------------------------------------------------------------------
(* Claims about the manifest merger *)

\* the list a supplied file holds under (s, t), <<>> when it holds none
SuppliedList(f, s, t) ==
    IF f.st = "json" /\ "samples" \in DOMAIN f.doc /\ s \in DOMAIN f.doc["samples"]
       /\ t \in DOMAIN f.doc["samples"][s]
    THEN f.doc["samples"][s][t] ELSE <<>>

\* the lists under (s, t) of the first n supplied files, end to end
RECURSIVE Supplied(_, _, _)
Supplied(n, s, t) ==
    IF n = 0 THEN <<>> ELSE Supplied(n - 1, s, t) \o SuppliedList(json_files[n], s, t)

MergedList(s, t) ==
    IF s \in DOMAIN merged_data /\ t \in DOMAIN merged_data[s]
    THEN merged_data[s][t] ELSE <<>>

\* l holds every element of c, each once, in the order of their first places in c
IsDedupOf(l, c) ==
    /\ Range(l) = Range(c)
    /\ \A i, j \in 1 .. Len(l) : i # j => l[i] # l[j]
    /\ \A i, j \in 1 .. Len(l) : i < j => FirstIndex(l[i], c) < FirstIndex(l[j], c)

\* C12: each (sample, file type) list of the merged view holds every path
\* that occurs under that key in any supplied document, each exactly once,
\* ordered by first occurrence in the documents scanned in the order supplied.
C12_MergeDedup ==
    mpc = "returned" =>
        \A s \in MergeSamples, t \in Range(file_types) :
            IsDedupOf(MergedList(s, t), Supplied(Len(json_files), s, t))

\* two documents hold the same path under one key, the second after another
\* path, and the merged list holds the shared path once and first
C12_Witness ==
    /\ mpc = "returned"
    /\ Len(json_files) = 2
    /\ SuppliedList(json_files[1], "S1", "cnv") = <<"/a/x.vcf">>
    /\ SuppliedList(json_files[2], "S1", "cnv") = <<"/a/y.vcf", "/a/x.vcf">>
    /\ MergedList("S1", "cnv") = <<"/a/x.vcf", "/a/y.vcf">>

----------------------------------------------------------------------------
(* _generate_vsbatch_content, lines 295-382 *)

MaxGroup == 2       \* sample names on the line of a group

\* the names a group line can hold, in ascending order; "S3" has no document
GroupNames == <<"S1", "S2", "S3">>

Rank(name) == CHOOSE i \in 1 .. Len(GroupNames) : GroupNames[i] = name

\* sorted(sample_group)
RECURSIVE SortedGroup(_)
SortedGroup(group) ==
    IF group = <<>> THEN <<>>
    ELSE LET m == CHOOSE i \in 1 .. Len(group) :
                      \A j \in 1 .. Len(group) : Rank(group[i]) <= Rank(group[j])
         IN <<group[m]>> \o SortedGroup(SubSeq(group, 1, m - 1) \o SubSeq(group, m + 1, Len(group)))

\* lines 316-321: the names joined by '_' into the project name
ProjectName(group) ==
    IF Len(group) < 6 THEN SortedGroup(group) ELSE <<group[1], "cohort">>

\* the entries the merged view can hold for a sample
GroupInfos ==
    { [t \in Range(file_types) |-> <<>>],
      [t \in Range(file_types) |-> IF t = "multiverse" THEN <<"/a/m.vcf">> ELSE <<>>],
      [t \in Range(file_types) |-> IF t = "cnv" THEN <<"/a/x.vcf", "/a/y.vcf">> ELSE <<>>],
      [t \in Range(file_types) |-> IF t \in {"bnd", "region"} THEN <<"/a/z.vcf">> ELSE <<>>],
      [t \in Range(file_types) |-> <<"/a/w.vcf">>] }

MergedViews == UNION { [S -> GroupInfos] : S \in SUBSET MergeSamples }

\* "Table1", the fallback of lines 357, 364 and 371
Table1 == Table \o <<49>>

\* resolved identifiers: None, the empty string, or "Table2"
TableIdChoices ==
    { [t \in table_types |-> c] : c \in { <<>>, << <<>> >>, << Table \o <<50>> >> } }

\* table_ids.get(table_type) or 'Table1'
TableIdOrDefault(ids, table_type) ==
    IF ids[table_type] = <<>> \/ ids[table_type][1] = <<>> THEN Table1
    ELSE ids[table_type][1]

\* lines 339-345: the files of one type of the samples of the group, in order
RECURSIVE GroupFiles(_, _)
GroupFiles(group, file_type) ==
    IF group = <<>> THEN <<>>
    ELSE (IF Head(group) \in DOMAIN merged_data
          THEN Get(merged_data[Head(group)], file_type, <<>>) ELSE <<>>)
         \o GroupFiles(Tail(group), file_type)

\* a command line
Command(c) ==
    [cmd |-> c, project |-> <<>>, overwrite |-> FALSE, files |-> <<>>, table_id |-> <<>>]

ImportWantedWhateverFlag(flag, files) == files # <<>>

\* lines 355, 362 and 369: the flag is set and there are files
ImportWanted(flag, files) == flag /\ files # <<>>

\* lines 355-373: the import command of a category and its task_wait, or nothing
ImportBlock(c, table_type, file_type) ==
    LET files == GroupFiles(sample_group, file_type) IN
    IF ImportWanted(import_algorithms[table_type], files)
    THEN << [Command(c) EXCEPT !.files = files,
                               !.table_id = TableIdOrDefault(table_ids, table_type)],
            Command("task_wait") >>
    ELSE <<>>

notGen == <<mode, storeVars, relVars, tabVars, algVars, mergeVars, cnvVars, dirVars, batchVars>>

\* lines 323-331
CreateProject ==
    /\ gpc = "create"
    /\ vsbatch_lines' =
           << [Command("project_create") EXCEPT !.project = ProjectName(sample_group),
                                                !.overwrite = overwrite_project],
              Command("download_required_sources") >>
    /\ gpc' = "multiverse"
    /\ UNCHANGED <<notGen, sample_group, overwrite_project>>

\* lines 347-352
ImportMultiverse ==
    /\ gpc = "multiverse"
    /\ LET files == GroupFiles(sample_group, "multiverse") IN
       vsbatch_lines' = vsbatch_lines \o
           (IF files # <<>>
            THEN << [Command("import") EXCEPT !.files = files], Command("task_wait") >>
            ELSE <<>>)
    /\ gpc' = "cnv"
    /\ UNCHANGED <<notGen, sample_group, overwrite_project>>

\* lines 354-359
ImportCnv ==
    /\ gpc = "cnv"
    /\ vsbatch_lines' = vsbatch_lines \o ImportBlock("update_cnv_import", "cnv", "cnv")
    /\ gpc' = "breakend"
    /\ UNCHANGED <<notGen, sample_group, overwrite_project>>

\* lines 361-366
ImportBreakend ==
    /\ gpc = "breakend"
    /\ vsbatch_lines' = vsbatch_lines \o ImportBlock("update_bnd_import", "breakend", "bnd")
    /\ gpc' = "region"
    /\ UNCHANGED <<notGen, sample_group, overwrite_project>>

\* lines 368-373
ImportRegion ==
    /\ gpc = "region"
    /\ vsbatch_lines' = vsbatch_lines \o ImportBlock("update_region_import", "region", "region")
    /\ gpc' = "close"
    /\ UNCHANGED <<notGen, sample_group, overwrite_project>>

\* lines 375-382
CloseProject ==
    /\ gpc = "close"
    /\ vsbatch_lines' = vsbatch_lines \o
           << Command("get_task_list"), Command("project_save"), Command("project_close") >>
    /\ gpc' = "done"
    /\ UNCHANGED <<notGen, sample_group, overwrite_project>>

\* generate_vsbatch_file, lines 905-936: the template is resolved, the
\* documents are merged, and the generator is called for a group
GenInit ==
    /\ mode = "generate-vsbatch"
    /\ CnvIdle
    /\ DirIdle
    /\ BatchIdle
    /\ StoreIdle
    /\ RelIdle
    /\ tpc = "resolved"
    /\ matching_tables = [t \in table_types |-> <<>>]
    /\ table_ids \in TableIdChoices
    /\ apc = "returned"
    /\ algorithms = <<>>
    /\ alg_scanned = 0
    /\ import_algorithms \in [table_types -> BOOLEAN]
    /\ mpc = "returned"
    /\ json_files = <<>>
    /\ merge_index = 0
    /\ merged_data \in MergedViews
    /\ gpc = "create"
    /\ sample_group \in UNION { [1 .. n -> Range(GroupNames)] : n \in 1 .. MaxGroup }
    /\ overwrite_project \in BOOLEAN
    /\ vsbatch_lines = <<>>

GenNext ==
    \/ CreateProject
    \/ ImportMultiverse
    \/ ImportCnv
    \/ ImportBreakend
    \/ ImportRegion
    \/ CloseProject

SpecGen == GenInit /\ [][GenNext]_vars

----------------------------------------------------------------------------
(* Claims about the batch generator *)

\* some sample of the group has a file of the type in the merged view
GroupHasFile(file_type) ==
    \E i \in 1 .. Len(sample_group) :
        /\ sample_group[i] \in DOMAIN merged_data
        /\ file_type \in DOMAIN merged_data[sample_group[i]]
        /\ merged_data[sample_group[i]][file_type] # <<>>

\* the import command followed by the synchronization marker, or nothing
BlockIf(present, c) == IF present THEN <<c, "task_wait">> ELSE <<>>

ExpectedCommands ==
    <<"project_create", "download_required_sources">>
        \o BlockIf(GroupHasFile("multiverse"), "import")
        \o BlockIf(import_algorithms["cnv"] /\ GroupHasFile("cnv"), "update_cnv_import")
        \o BlockIf(import_algorithms["breakend"] /\ GroupHasFile("bnd"), "update_bnd_import")
        \o BlockIf(import_algorithms["region"] /\ GroupHasFile("region"),
                   "update_region_import")
        \o <<"get_task_list", "project_save", "project_close">>

\* C13: the generated sequence is project creation, source materialization,
\* then in the order multiverse, cnv, breakend, region one block per category
\* (the import command immediately followed by the synchronization marker),
\* then listing, save, close; the multiverse block is present iff the group
\* has a multiverse file, each other block iff the category's flag is true
\* and the group has a file of that type.
C13_CommandSequence ==
    gpc = "done" =>
        [i \in 1 .. Len(vsbatch_lines) |-> vsbatch_lines[i].cmd] = ExpectedCommands

\* a group with multiverse, cnv and bnd files, the cnv flag set and the
\* breakend and region flags not: the multiverse and cnv blocks only
C13_Witness ==
    /\ gpc = "done"
    /\ GroupHasFile("multiverse") /\ GroupHasFile("cnv") /\ GroupHasFile("bnd")
    /\ import_algorithms = [t \in table_types |-> t = "cnv"]
    /\ Len(vsbatch_lines) = 9
    /\ vsbatch_lines[5].cmd = "update_cnv_import"
    /\ vsbatch_lines[5].table_id = Table1

----------------------------------------------------------------------------
(* generate_vsbatch_file run with the scratch directory of the appends, while   *)
(* appends to the document are running: lines 882-913                         *)

\* the lock the merger holds on a file it has opened: line 267 is a plain
\* open(), flock is never called
MergerLock == "none"

\* what the staging of line 898 leaves alone
notStage == <<mode, relVars, tabVars, algVars, genVars, cnvVars, dirVars, batchVars,
              output_json, pc, args, data, attempt, delay, flock, holder, storeHist>>

\* lines 882-885: no supplied file exists, exit with 1
NoExistingFile ==
    /\ mpc = "stage"
    /\ ~Exists(output_json)
    /\ mpc' = "failed"
    /\ UNCHANGED <<notMerge, json_files, merge_index, merged_data>>

\* lines 895-898: shutil.copy2 opens the scratch file for writing (truncating it) ...
StageForMerge ==
    /\ mpc = "stage"
    /\ Exists(output_json)
    /\ scratch_json' = EmptyFile
    /\ mpc' = "stage_copy"
    /\ UNCHANGED <<notStage, json_files, merge_index, merged_data>>

\* ... and then copies the bytes the persisted file holds at that moment
StageForMergeCopy ==
    /\ mpc = "stage_copy"
    /\ scratch_json' = output_json
    /\ mpc' = "merge"
    /\ UNCHANGED <<notStage, json_files, merge_index, merged_data>>

\* line 267: the merger opens the staged file
OpenStaged ==
    /\ mpc = "merge"
    /\ mpc' = "reading"
    /\ UNCHANGED <<notMerge, json_files, merge_index, merged_data>>

\* lines 268-292: json.load of what the file holds at that moment, and the merge
ReadStaged ==
    /\ mpc = "reading"
    /\ merged_data' = MergedWith(merged_data, scratch_json)
    /\ merge_index' = merge_index + 1
    /\ mpc' = "returned"
    /\ UNCHANGED <<notMerge, json_files>>

ReadInit ==
    /\ mode = "generate-vsbatch"
    /\ CnvIdle
    /\ DirIdle
    /\ BatchIdle
    /\ RelIdle
    /\ TabIdle
    /\ AlgIdle
    /\ GenIdle
    /\ StoreIdle
    /\ mpc = "stage"
    /\ json_files = <<>>
    /\ merge_index = 0
    /\ merged_data = EmptyDict

ReadNext ==
    \/ \E p \in Procs : Step(p)
    \/ NoExistingFile
    \/ StageForMerge
    \/ StageForMergeCopy
    \/ OpenStaged
    \/ ReadStaged

SpecRead == ReadInit /\ [][ReadNext]_vars

\* C14: a read of a Manifest Document made outside the append flow is made
\* under a shared lock on the file, so that the file is never open for such
\* a read while a writer holds the exclusive lock on it.
C14_MergerReadsUnderSharedLock ==
    mpc = "reading" =>
        /\ MergerLock = "sh"
        /\ \A p \in Procs : flock[p] # "ex"

----------------------------------------------------------------------------
(* update_cnv_file, lines 571-608: the CNV State of each data line *)

MaxLines == 2       \* data lines with a copy-number field

\* a numeric field holds a number of quarters: q stands for the value q / 4,
\* which float() represents exactly
Quarters == (0 - 7) .. 14

\* the copy-number fields: a finite number, "nan", "inf", or text that
\* float() rejects
CnFields ==
    { [kind |-> "num", q |-> q] : q \in Quarters }
        \cup { [kind |-> k, q |-> 0] : k \in {"nan", "inf", "text"} }

RoundHalfUp(q) == (q + 2) \div 4

\* round(cn_value): the nearest integer, the even one of the two when the
\* value is halfway between them
Round(q) ==
    LET floor == q \div 4
        rest == q % 4
    IN IF rest < 2 THEN floor
       ELSE IF rest > 2 THEN floor + 1
       ELSE IF floor % 2 = 0 THEN floor ELSE floor + 1

\* lines 590-599
CnvState(cn_int) ==
    IF cn_int = 2 THEN "Normal"
    ELSE IF cn_int = 0 THEN "Deletion"
    ELSE IF cn_int = 1 THEN "Het Deletion"
    ELSE IF cn_int >= 3 THEN "Duplicate"
    ELSE "?"

notCnv == <<mode, storeVars, relVars, tabVars, algVars, mergeVars, genVars, dirVars, batchVars>>

\* lines 583-604: a finite value is rounded and classified, the line is written
ProcessLine ==
    /\ cpc = "lines"
    /\ lines_done < Len(cn_fields)
    /\ cn_fields[lines_done + 1].kind = "num"
    /\ updated_lines' = Append(updated_lines,
                               <<cn_fields[lines_done + 1],
                                 CnvState(Round(cn_fields[lines_done + 1].q))>>)
    /\ lines_done' = lines_done + 1
    /\ UNCHANGED <<notCnv, cpc, cn_fields>>

\* lines 585, 588 and 606-608: float() or round() raises ValueError, the line
\* is skipped
SkipLine ==
    /\ cpc = "lines"
    /\ lines_done < Len(cn_fields)
    /\ cn_fields[lines_done + 1].kind \in {"text", "nan"}
    /\ lines_done' = lines_done + 1
    /\ UNCHANGED <<notCnv, cpc, cn_fields, updated_lines>>

\* lines 588 and 628-630: round() raises OverflowError, exit with 1
FailOnInfinity ==
    /\ cpc = "lines"
    /\ lines_done < Len(cn_fields)
    /\ cn_fields[lines_done + 1].kind = "inf"
    /\ cpc' = "failed"
    /\ UNCHANGED <<notCnv, cn_fields, lines_done, updated_lines>>

\* lines 610-612: the output file is written
WriteLines ==
    /\ cpc = "lines"
    /\ lines_done = Len(cn_fields)
    /\ cpc' = "done"
    /\ UNCHANGED <<notCnv, cn_fields, lines_done, updated_lines>>

CnvInit ==
    /\ mode = "update-cnv-file"
    /\ StoreIdle
    /\ RelIdle
    /\ TabIdle
    /\ AlgIdle
    /\ MergeIdle
    /\ GenIdle
    /\ DirIdle
    /\ BatchIdle
    /\ cpc = "lines"
    /\ cn_fields \in UNION { [1 .. n -> CnFields] : n \in 0 .. MaxLines }
    /\ lines_done = 0
    /\ updated_lines = <<>>

CnvNext == ProcessLine \/ SkipLine \/ FailOnInfinity \/ WriteLines

SpecCnv == CnvInit /\ [][CnvNext]_vars

----------------------------------------------------------------------------
(* Claims about the CNV State *)

\* the state of the rounded value
StateOf(n) ==
    CASE n = 2 -> "Normal"
      [] n = 0 -> "Deletion"
      [] n = 1 -> "Het Deletion"
      [] n >= 3 -> "Duplicate"
      [] OTHER -> "?"

\* the finite fields of the input, in order
FiniteFields == SelectSeq(cn_fields, LAMBDA f : f.kind = "num")

\* C15 as claimed: every numeric value gets a state, the state of the value
\* rounded to the nearest integer with halves rounded as in ordinary rounding
\* (upwards), and the state is "?" exactly when the value is negative.
C15_CnvState ==
    cpc = "done" =>
        /\ Len(updated_lines) = Len(FiniteFields)
        /\ \A i \in 1 .. Len(updated_lines) :
               LET q == updated_lines[i][1].q
                   state == updated_lines[i][2]
               IN /\ updated_lines[i][1] = FiniteFields[i]
                  /\ \E n \in (0 - 3) .. 5 :
                         /\ 4 * n - 2 <= q /\ q < 4 * n + 2
                         /\ state = StateOf(n)
                  /\ state = "?" <=> q < 0

\* C15 as amended: every finite value gets a state, the state of the nearest
\* integer, which is the even one of the two for a value halfway between two
\* integers; the state is "?" exactly when that integer is negative, that
\* is when the value is below -0.5.
C15_CnvStateHalfEven ==
    cpc = "done" =>
        /\ Len(updated_lines) = Len(FiniteFields)
        /\ \A i \in 1 .. Len(updated_lines) :
               LET q == updated_lines[i][1].q
                   state == updated_lines[i][2]
               IN /\ updated_lines[i][1] = FiniteFields[i]
                  /\ \E n \in (0 - 3) .. 5 :
                         /\ \/ 4 * n - 2 < q /\ q < 4 * n + 2
                            \/ n % 2 = 0 /\ (q = 4 * n - 2 \/ q = 4 * n + 2)
                         /\ state = StateOf(n)
                  /\ state = "?" <=> 2 * q < 0 - 4

\* 2.5 is "Normal" and -0.25 is "Deletion"
C15_Witness ==
    /\ cpc = "done"
    /\ Len(updated_lines) = 2
    /\ updated_lines[1] = <<[kind |-> "num", q |-> 10], "Normal">>
    /\ updated_lines[2] = <<[kind |-> "num", q |-> 0 - 1], "Deletion">>

----------------------------------------------------------------------------
(* update_vspipeline_json run on a document that is already persisted *)

\* an entry that holds one of the four lists only
PartialEntry == ("cnv" :> <<"/a/x.vcf">>)

\* the persisted file before the first invocation: none, an empty file, a
\* document with an unrecognized field and no "samples", a document whose
\* sample entry lacks file types, a document of two samples with an
\* unrecognized field
PersistedDocuments ==
    { MissingFile,
      EmptyFile,
      JsonFile(("schema" :> "v1")),
      JsonFile(("samples" :> ("S1" :> PartialEntry))),
      JsonFile(("schema" :> "v1")
               @@ ("samples" :>
                     (("S1" :> [t \in valid_file_types |->
                                   IF t = "cnv" THEN <<"/a/y.vcf", "/a/x.vcf">> ELSE <<>>])
                      @@ ("S2" :> [t \in valid_file_types |-> <<"/a/z.vcf">>])))) }

DocInit ==
    /\ mode = "update-vspipeline-json"
    /\ CnvIdle
    /\ DirIdle
    /\ BatchIdle
    /\ RelIdle
    /\ TabIdle
    /\ AlgIdle
    /\ MergeIdle
    /\ GenIdle
    /\ output_json \in PersistedDocuments
    /\ scratch_json = MissingFile
    /\ pc = [p \in Procs |-> "idle"]
    /\ args = [p \in Procs |-> [sample_name |-> "S1", file_type |-> "cnv", file_path |-> "/a/x.vcf"]]
    /\ data = [p \in Procs |-> EmptyDict]
    /\ attempt = [p \in Procs |-> 0]
    /\ delay = [p \in Procs |-> 0]
    /\ flock = [p \in Procs |-> "none"]
    /\ holder = "none"
    /\ started = 0
    /\ snapshot = [p \in Procs |-> MissingFile]
    /\ replaced = [p \in Procs |-> MissingFile]
    /\ held = [p \in Procs |-> FALSE]
    /\ ever = Entries(output_json)
    /\ history = <<>>

SpecDoc == DocInit /\ [][NextSeq]_vars

\* concurrent appends to such a document
SpecDocRace == DocInit /\ [][Next]_vars

\* C16: an append to a document that parses fails for no reason other than
\* an invalid file type or an exhausted lock, whatever keys the entry of the
\* sample has; when the entry has no list for the file type the append
\* creates it, and a returned append has stored the path in the list.
C16_AppendCreatesMissingList ==
    \A p \in Procs :
        /\ (pc[p] = "failed" /\ args[p].file_type \in valid_file_types)
               => attempt[p] = max_retries - 1
        /\ pc[p] = "done"
               => InList(args[p].file_path,
                         StoredList(output_json, args[p].sample_name, args[p].file_type))

----------------------------------------------------------------------------
(* The single writer under a scheduler that lets a running process go on *)

SpecSeqFair == SpecSeq /\ WF_vars(Step(Writer))

\* a call is waiting for the lock after failed attempts
Retrying(p) == pc[p] \in {"read", "write"} /\ attempt[p] > 0

\* the waits of the claim: 1, 2, 4, 8, 16, 32 initial delays, then 32 for ever
ClaimedWait(k) ==
    CASE k = 0 -> 1 [] k = 1 -> 2 [] k = 2 -> 4 [] k = 3 -> 8 [] k = 4 -> 16 [] OTHER -> 32

\* what C17 says of every state
BoundedRetries ==
    \A p \in Procs :
        /\ attempt[p] \in 0 .. (max_retries - 1)
        /\ Retrying(p) => delay[p] = ClaimedWait(attempt[p] - 1)
        /\ (pc[p] = "failed" /\ args[p].file_type \in valid_file_types)
               => attempt[p] = max_retries - 1
        /\ pc[p] = "publish" => scratch_json = JsonFile(data[p])

\* C17: a lock acquisition makes at most max_retries attempts; after failed
\* attempt k, not the last, it waits retry_delay * 2^min(k, 5); the failure of
\* the last attempt is fatal; the write call returns normally only with the
\* data written; and every call terminates.
C17_BoundedBackoff ==
    /\ []BoundedRetries
    /\ \A p \in Procs : Running(p) ~> ~Running(p)

\* the wait has reached its cap: eight attempts on the exclusive lock failed
C17_Witness ==
    /\ pc[Writer] = "write"
    /\ attempt[Writer] = 8
    /\ delay[Writer] = 32
    /\ holder # "none"

----------------------------------------------------------------------------
(* The group resolver under a scheduler that lets the process go on *)

SpecRelFair == SpecRel /\ WF_vars(RelNext)

\* what C18 says of every state: the samples in the frontier are visited,
\* the visited samples are the enqueued ones, and none was enqueued twice
EnqueuedOnce ==
    /\ Range(to_process) \subseteq processed_samples
    /\ Range(enqueued) = processed_samples
    /\ \A i, j \in 1 .. Len(enqueued) : i # j => enqueued[i] # enqueued[j]

\* C18: a sample is marked visited at the moment it is enqueued, every
\* sample is enqueued at most once over the whole run, and the frontier of
\* every traversal eventually becomes empty, for every table, those with
\* self-references and reference cycles included.
C18_TraversalTerminates ==
    /\ []EnqueuedOnce
    /\ (rpc = "bfs") ~> (to_process = <<>>)
    /\ <>(rpc = "done")

\* a table where a sample names itself and two samples name each other
C18_Witness ==
    /\ rpc = "done" /\ ~cohort
    /\ \E a, b \in all_samples :
          /\ a # b
          /\ InList(a, sample_data[a])
          /\ InList(b, sample_data[a]) /\ InList(a, sample_data[b])
          /\ SameGroup(a, b)
    /\ Len(enqueued) = Cardinality(all_samples)

----------------------------------------------------------------------------
(* The frame of an append *)

SamplesOf(d) == IF "samples" \in DOMAIN d THEN d["samples"] ELSE EmptyDict

IsPrefix(l, m) == Len(l) <= Len(m) /\ SubSeq(m, 1, Len(l)) = l

\* after differs from before in the list of (s, t) at most, where the paths
\* that were there stay in their places
SameButList(before, after, s, t) ==
    LET b == ParsedContent(before)
        a == ParsedContent(after)
    IN /\ DOMAIN a \ {"samples"} = DOMAIN b \ {"samples"}
       /\ \A k \in DOMAIN b \ {"samples"} : a[k] = b[k]
       /\ DOMAIN SamplesOf(a) \ {s} = DOMAIN SamplesOf(b) \ {s}
       /\ \A o \in DOMAIN SamplesOf(b) \ {s} : SamplesOf(a)[o] = SamplesOf(b)[o]
       /\ \A u \in valid_file_types \ {t} : StoredList(after, s, u) = StoredList(before, s, u)
       /\ IsPrefix(StoredList(before, s, t), StoredList(after, s, t))

\* C19: the copy that ends a successful append of (S, T, path) leaves the
\* persisted document as it was when the copy began except for the list of
\* (S, T): the other samples, the other lists of S, the paths already in the
\* list and their order, and the top-level fields other than "samples".
C19_AppendFrame ==
    [][\A p \in Procs :
          (pc[p] = "publish_copy" /\ pc'[p] = "done")
              => SameButList(replaced[p], output_json', args[p].sample_name,
                             args[p].file_type)]_vars

----------------------------------------------------------------------------
(* The scratch copy while it is locked *)

\* C20: while a process holds the exclusive lock on the scratch copy, the
\* content of the scratch file changes only by that process's overwrite:
\* neither the stage step nor the create-if-missing path of another append
\* alters it.
C20_LockedScratchUntouched ==
    [][\A q \in Procs :
          (flock[q] = "ex" /\ scratch_json' # scratch_json)
              => (pc[q] = "write_locked" /\ pc'[q] = "written")]_vars

----------------------------------------------------------------------------
(* The documents of several (sample, task) pairs: update_vspipeline_json,    *)
(* lines 780-833, one call at a time, so that every flock succeeds           *)

MaxCalls == 2       \* calls of update_vspipeline_json (SpecDir)

\* the --sample and --task_name values the calls are given
PairSamples == {"A", "A_B"}
PairTasks == {"C", "B_C"}
Pairs == PairSamples \X PairTasks

\* line 781: f'{sample_name}_{task_name}_vspipeline_inputs.json'
json_filename(sample_name, task_name) ==
    sample_name \o "_" \o task_name \o "_vspipeline_inputs.json"

\* the names of the files the calls address, in input_dir and in scratch_dir
FileNames == { json_filename(pr[1], pr[2]) : pr \in Pairs }

CallFile == json_filename(call.sample_name, call.task_name)

notDir == <<mode, storeVars, relVars, tabVars, algVars, mergeVars, genVars, cnvVars, batchVars>>

\* lines 774-790: argument validation and file names
DirBegin ==
    /\ dpc = "idle"
    /\ calls < MaxCalls
    /\ \E pr \in Pairs, t \in {"cnv", "bnd"}, x \in {"/a/x.vcf", "/a/y.vcf"} :
          call' = [sample_name |-> pr[1], task_name |-> pr[2], file_type |-> t,
                   file_path |-> x]
    /\ calls' = calls + 1
    /\ dpc' = "stage"
    /\ UNCHANGED <<notDir, input_dir, scratch_dir>>

\* lines 796-801: copy the persisted document to the scratch directory, under
\* the same file name, when it exists
DirStage ==
    /\ dpc = "stage"
    /\ scratch_dir' = IF Exists(input_dir[CallFile])
                      THEN [scratch_dir EXCEPT ![CallFile] = input_dir[CallFile]]
                      ELSE scratch_dir
    /\ dpc' = "update"
    /\ UNCHANGED <<notDir, call, input_dir, calls>>

\* lines 804-829: read the scratch file, add the path, overwrite the scratch file
DirUpdate ==
    /\ dpc = "update"
    /\ LET d == ParsedContent(scratch_dir[CallFile])
       IN IF RaisesKeyError(d, call.sample_name, call.file_type)
          THEN /\ dpc' = "idle"
               /\ UNCHANGED scratch_dir
          ELSE /\ dpc' = "publish"
               /\ scratch_dir' =
                      [scratch_dir EXCEPT ![CallFile] =
                          JsonFile(Modified(d, call.sample_name, call.file_type,
                                            call.file_path))]
    /\ UNCHANGED <<notDir, call, input_dir, calls>>

\* lines 832-833: copy the scratch file over the persisted document
DirPublish ==
    /\ dpc = "publish"
    /\ input_dir' = [input_dir EXCEPT ![CallFile] = scratch_dir[CallFile]]
    /\ dpc' = "idle"
    /\ UNCHANGED <<notDir, call, scratch_dir, calls>>

\* both directories start without any of the documents
DirInit ==
    /\ mode = "update-vspipeline-json"
    /\ StoreIdle
    /\ RelIdle
    /\ TabIdle
    /\ AlgIdle
    /\ MergeIdle
    /\ GenIdle
    /\ CnvIdle
    /\ BatchIdle
    /\ dpc = "idle"
    /\ call = [sample_name |-> "A", task_name |-> "C", file_type |-> "cnv",
               file_path |-> "/a/x.vcf"]
    /\ input_dir = [n \in FileNames |-> MissingFile]
    /\ scratch_dir = [n \in FileNames |-> MissingFile]
    /\ calls = 0

DirNext == DirBegin \/ DirStage \/ DirUpdate \/ DirPublish

SpecDir == DirInit /\ [][DirNext]_vars

\* the persisted document of a (sample, task) pair
DocumentOf(dir, pr) == dir[json_filename(pr[1], pr[2])]

\* C21: an append addressed to one (sample, task) pair leaves the persisted
\* document and the scratch file of every other pair unchanged.
C21_PairsIsolated ==
    [][\A pr \in Pairs :
          pr # <<call.sample_name, call.task_name>>
              => /\ DocumentOf(input_dir', pr) = DocumentOf(input_dir, pr)
                 /\ DocumentOf(scratch_dir', pr) = DocumentOf(scratch_dir, pr)]_vars

----------------------------------------------------------------------------
(* Stale scratch files: the single writer's process may be killed anywhere   *)
(* between line 794 and line 833, and the next invocation runs afterwards    *)

\* the process ends without running another line; the kernel closes its
\* files, which drops its lock; what it wrote to either file stays
Crash(p) ==
    /\ Running(p)
    /\ pc' = [pc EXCEPT ![p] = "failed"]
    /\ flock' = [flock EXCEPT ![p] = "none"]
    /\ UNCHANGED <<notStore, output_json, scratch_json, args, data, attempt, delay, holder,
                   storeHist>>

NextCrash == NextSeq \/ Crash(Writer)

SpecCrash == Init /\ [][NextCrash]_vars

\* C22: when a single-writer append has returned, the entries of the
\* persisted document are those it held when the append began (none if it
\* did not exist) plus the appended entry, whatever the scratch directory
\* held beforehand.
C22_StaleScratchIgnored ==
    pc[Writer] = "done"
        => Entries(output_json) = Entries(snapshot[Writer]) \cup {EntryOf(Writer)}

----------------------------------------------------------------------------
(* generate_vsbatch_file, lines 876-913: the supplied documents are filtered, *)
(* copied to the scratch directory when one is given, and merged             *)

MaxSupplied == 2    \* paths given with --sample_data_files (SpecBatch)

\* the directories and the file names of the supplied paths
BatchDirs == {"/t1", "/t2"}
BatchNames == {"S1_t_vspipeline_inputs.json", "S2_t_vspipeline_inputs.json"}

\* a document as update_vspipeline_json writes it after one append
DocumentWith(s, t, x) ==
    JsonFile("samples" :> (s :> [u \in valid_file_types |-> IF u = t THEN <<x>> ELSE <<>>]))

\* what a supplied path may hold
SuppliedFiles ==
    {MissingFile, DocumentWith("S1", "cnv", "/a/x.vcf"), DocumentWith("S1", "cnv", "/a/y.vcf"),
     DocumentWith("S2", "bnd", "/a/z.vcf")}

SuppliedEntries == [dir : BatchDirs, name : BatchNames, file : SuppliedFiles]

\* one path names one file
OnePathEach(l) ==
    \A i, j \in 1 .. Len(l) : i # j => <<l[i].dir, l[i].name>> # <<l[j].dir, l[j].name>>

IsExisting(e) == Exists(e.file)

\* line 882: [f for f in sample_data_files if os.path.exists(f)]
existing_files == SelectSeq(sample_data_files, IsExisting)

\* what the staging never touches
notBatch == <<mode, storeVars, relVars, tabVars, algVars, genVars, cnvVars, dirVars>>

\* lines 883-885: no supplied file exists, exit with 1
NoValidFile ==
    /\ mpc = "filter"
    /\ existing_files = <<>>
    /\ mpc' = "failed"
    /\ UNCHANGED <<notBatch, batchVars, json_files, merge_index, merged_data>>

\* lines 889-890 and 913: without a scratch directory the supplied files are read
ReadInPlace ==
    /\ mpc = "filter"
    /\ existing_files # <<>>
    /\ ~use_scratch
    /\ json_files' = [i \in 1 .. Len(existing_files) |-> existing_files[i].file]
    /\ mpc' = "merge"
    /\ UNCHANGED <<notBatch, batchVars, merge_index, merged_data>>

\* lines 890-894
BeginCopy ==
    /\ mpc = "filter"
    /\ existing_files # <<>>
    /\ use_scratch
    /\ mpc' = "copy"
    /\ UNCHANGED <<notBatch, batchVars, json_files, merge_index, merged_data>>

\* lines 895-900: one round of the loop; the copy goes to
\* os.path.join(scratch_dir, os.path.basename(json_file))
CopyToScratch ==
    /\ mpc = "copy"
    /\ copied < Len(existing_files)
    /\ LET json_file == existing_files[copied + 1]
       IN staged' = [staged EXCEPT ![json_file.name] = json_file.file]
    /\ copied' = copied + 1
    /\ UNCHANGED <<notBatch, mergeVars, sample_data_files, use_scratch>>

\* lines 901 and 913: the scratch paths are read, in the order of the copies
ReadFromScratch ==
    /\ mpc = "copy"
    /\ copied = Len(existing_files)
    /\ json_files' = [i \in 1 .. Len(existing_files) |-> staged[existing_files[i].name]]
    /\ mpc' = "merge"
    /\ UNCHANGED <<notBatch, batchVars, merge_index, merged_data>>

BatchInit ==
    /\ mode = "generate-vsbatch"
    /\ StoreIdle
    /\ RelIdle
    /\ TabIdle
    /\ AlgIdle
    /\ GenIdle
    /\ CnvIdle
    /\ DirIdle
    /\ mpc = "filter"
    /\ json_files = <<>>
    /\ merge_index = 0
    /\ merged_data = EmptyDict
    /\ sample_data_files \in
          { l \in UNION { [1 .. n -> SuppliedEntries] : n \in 1 .. MaxSupplied } :
              OnePathEach(l) }
    /\ use_scratch \in BOOLEAN
    /\ staged = [n \in BatchNames |-> MissingFile]
    /\ copied = 0

BatchNext ==
    \/ NoValidFile
    \/ ReadInPlace
    \/ BeginCopy
    \/ CopyToScratch
    \/ ReadFromScratch
    \/ MergeFile
    \/ ReturnMerged

SpecBatch == BatchInit /\ [][BatchNext]_vars

\* the merge of the first n of files, in order
RECURSIVE MergeOfFirst(_, _)
MergeOfFirst(files, n) ==
    IF n = 0 THEN EmptyDict ELSE MergedWith(MergeOfFirst(files, n - 1), files[n].file)

\* C23: with or without a scratch directory, the manifest view the batch
\* files are generated from is the merge of every existing supplied document
\* in the order supplied.
C23_StagedViewIsMerge ==
    mpc = "returned" => merged_data = MergeOfFirst(existing_files, Len(existing_files))

====
